---------------------------- MODULE Spec2Model ----------------------------
(***************************************************************************)
(* A model of the ba-web-framework: the Router's controller registration   *)
(* (partition into top-level and child controllers, the route report, the  *)
(* catch-all and the error-controller chain), the @Controller setup, the   *)
(* @ErrorHandler wrapper and the @Page wrapper.                            *)
(***************************************************************************)
EXTENDS Integers, Sequences, FiniteSets, TLC

VARIABLES
    root,                   \* the entries of the controllers folder, as readdir lists them
    undecorated,            \* the classes that carry no 'originalClass' metadata
    rejecting,              \* the classes with a descriptor app.post/put/delete rejects
    classified,             \* the entries of the folder checkIfControllerFile is done with
    childMeta,              \* 'ChildController' metadata of every controller class
    loadedControllers,      \* Router.setupControllers: the discovered controllers, in order
    errCodes,               \* status codes of the discovered @ErrorHandler classes, in order
    outsideFrameworkRoutes, \* Router.outsideFrameworkRoutes
    pc,                     \* position of Router.setupControllers
    idx,                    \* next element of topLevelControllers to process
    addedRoutes,            \* Router.setupControllers: addedRoutes (the report)
    appStack,               \* the Express app: every layer registered, in order
    setupLog,               \* every static setup invoked and every call it made on the app
    rejected,               \* a promise of the pass over topLevelControllers is rejected
    everAdded,              \* every path ever passed to addOutsideFrameworkRoute
    readded,                \* every path passed to it again while in the list
    req,                    \* the request the Express app is serving
    pageCfg,                \* @Page(title, page, extraScripts, extraStyles, ...otherParams)
    pagePc,                 \* position of the function @Page puts in descriptor.value
    pageArgs,               \* the arguments it was called with
    pageOutput,             \* what the decorated method returned
    renders,                \* the render calls made on the arguments
    warnings,               \* console.warn calls of the wrapper
    handlerRuns,            \* invocations of the decorated method
    oauthCfg,               \* OAuthApp: is BASE_APP_URL there, is a callback passed to run
    oauthPc,                \* position of OAuthApp.run and OAuthApp.onStart
    oauthLog,               \* what OAuthApp.onStart has done, in order
    hcStatus,               \* HealthCheckMiddleware.status (static)
    hcInstances,            \* the initialStatus of every HealthCheckMiddleware constructed
    hcLastWrite,            \* the status most recently written, by whom ever
    hcResp                  \* what a middleware did with the last request it was handed

configVars ==
    <<root, undecorated, rejecting, classified, childMeta, loadedControllers, errCodes>>

routerVars ==
    <<outsideFrameworkRoutes, pc, idx, addedRoutes, appStack, setupLog, rejected, everAdded,
      readded>>

pageVars == <<pageCfg, pagePc, pageArgs, pageOutput, renders, warnings, handlerRuns>>

oauthVars == <<oauthCfg, oauthPc, oauthLog>>

healthVars == <<hcStatus, hcInstances, hcLastWrite, hcResp>>

vars == <<configVars, routerVars, req, pageVars, oauthVars, healthVars>>

-----------------------------------------------------------------------------
(* Bounds and fixtures *)

\* longest array handed to @ChildController
MaxChildren == 2
\* most error controllers discovered
MaxErrCtl == 2
\* most arguments the wrapped method is called with
MaxArgs == 3
\* most extra parameters handed to @Page
MaxOtherParams == 1
\* most files of the controllers folder that fail to load
MaxBroken == 1
\* most HealthCheckMiddleware instances constructed
MaxInstances == 3

\* the controller classes of the application
Units == {"A", "B", "C"}

\* status codes @ErrorHandler classes are bound to
ErrCodes == {404, 500}

\* paths external collaborators exempt from the catch-all
OutsidePaths == {"/.well-known/jwks.json", "/c"}

\* paths of incoming requests
ReqPaths == {"/a", "/c", "/nope", "/.well-known/jwks.json"}

\* res.statusCode values a handler may leave behind
StatusCodes == {200, 404, 500}

Verbs == <<"GET", "POST", "PUT", "DELETE">>

\* The route descriptors the method decorators attach to each class
\* prototype, per verb, in the order of Object.getOwnPropertyNames.
Descriptors(u) ==
    CASE u = "A" -> [GET |-> <<"/a", "/a/sub">>, POST |-> <<>>, PUT |-> <<>>, DELETE |-> <<>>]
      [] u = "B" -> [GET |-> <<"/b">>, POST |-> <<"/b">>, PUT |-> <<>>, DELETE |-> <<>>]
      [] OTHER   -> [GET |-> <<>>, POST |-> <<>>, PUT |-> <<"/c">>, DELETE |-> <<"/c">>]

\* The middleware the @POST, @PUT and @DELETE decorators were handed, in order
Middleware(u, verb, path) ==
    CASE u = "B" /\ verb = "POST" -> <<"json", "auth">>
      [] u = "C" /\ verb = "PUT" -> <<"json">>
      [] OTHER -> <<>>

-----------------------------------------------------------------------------
(* Sequence helpers *)

Range(s) == {s[i] : i \in 1..Len(s)}

Includes(s, x) == \E i \in 1..Len(s) : s[i] = x

Count(s, x) == Cardinality({i \in 1..Len(s) : s[i] = x})

\* all sequences over S of length at most n without repeated elements
DistinctSeqs(S, n) ==
    {s \in UNION {[1..k -> S] : k \in 0..n} : \A i, j \in 1..Len(s) : i # j => s[i] # s[j]}

\* all sequences over S of length at most n
SeqsUpTo(S, n) == UNION {[1..k -> S] : k \in 0..n}

-----------------------------------------------------------------------------
(* @ChildController metadata *)

\* Reflect.getMetadata('ChildController', c): undefined, one class, or an array
Undefined == [kind |-> "undefined", cs |-> <<>>]

Single(c) == [kind |-> "single", cs |-> <<c>>]

Array(s) == [kind |-> "array", cs |-> s]

ChildDecls ==
    {Undefined} \cup {Single(c) : c \in Units}
                \cup {Array(s) : s \in DistinctSeqs(Units, MaxChildren)}

RECURSIVE Descendants(_, _, _)
\* the units reached from the set S through at most n child edges of meta
Descendants(meta, S, n) ==
    IF n = 0 THEN S
    ELSE LET next == S \cup UNION {Range(meta[u].cs) : u \in S}
         IN  Descendants(meta, next, n - 1)

\* no unit is its own descendant (setup recurses through the children)
Acyclic(meta) ==
    \A u \in Units : u \notin Descendants(meta, Range(meta[u].cs), Cardinality(Units))

Orderings(S) == {s \in [1..Cardinality(S) -> S] : Range(s) = S}

-----------------------------------------------------------------------------
(* @Controller: the generated static setup *)

\* the arguments a registration call passes after the path: the declared
\* middleware, then the method bound to the controller instance
Handlers(u, verb, path) == Middleware(u, verb, path) \o <<"fn">>

\* one registration call on the Express app
RouteLayer(verb, path, u) ==
    [kind |-> "route", verb |-> verb, path |-> path, unit |-> u, code |-> 0,
     handlers |-> Handlers(u, verb, path)]

RouteEvent(verb, path, u) ==
    [ev |-> "route", verb |-> verb, path |-> path, unit |-> u, by |-> "",
     handlers |-> Handlers(u, verb, path)]

SetupEvent(u, by) ==
    [ev |-> "setup", verb |-> "", path |-> "", unit |-> u, by |-> by, handlers |-> <<>>]

\* an exception leaves the setup of u
ThrowEvent(u) ==
    [ev |-> "throw", verb |-> "", path |-> "", unit |-> u, by |-> "", handlers |-> <<>>]

Threw(events) == events # <<>> /\ events[Len(events)].ev = "throw"

\* a setup that registers POST, PUT and DELETE ahead of GET
RegistrationsGetLast(u) ==
    LET d == Descriptors(u)
        Regs(verb, paths) == [i \in 1..Len(paths) |-> RouteEvent(verb, paths[i], u)]
    IN  Regs("POST", d.POST) \o Regs("PUT", d.PUT) \o Regs("DELETE", d.DELETE)
            \o Regs("GET", d.GET)

\* app.get / app.post / app.put / app.delete for every decorated method of u
AllRegistrations(u) ==
    LET d == Descriptors(u)
        Regs(verb, paths) == [i \in 1..Len(paths) |-> RouteEvent(verb, paths[i], u)]
    IN  Regs("GET", d.GET) \o Regs("POST", d.POST) \o Regs("PUT", d.PUT)
            \o Regs("DELETE", d.DELETE)

\* the registration calls of u's setup up to the first one Express rejects:
\* the GET routes take no middleware, so the first other route is the one
OwnRegistrations(u) ==
    LET all == AllRegistrations(u)
        bad == {i \in 1..Len(all) : all[i].verb # "GET"}
    IN  IF u \in rejecting /\ bad # {}
        THEN SubSeq(all, 1, (CHOOSE i \in bad : \A j \in bad : i <= j) - 1)
                \o <<ThrowEvent(u)>>
        ELSE all

RECURSIVE ControllerSetup(_, _), SetupEach(_, _)
\* static setup(app) of the class the decorator returns, invoked by `by`:
\* the children's setup first, then the unit's own routes; a class the
\* decorator never saw has the empty setup of BaseController
ControllerSetup(u, by) ==
    LET childControllers == childMeta[u]
        viaChildren == IF childControllers.kind = "undefined" THEN <<>>
                       ELSE SetupEach(childControllers.cs, u)
    IN  IF u \in undecorated THEN <<SetupEvent(u, by)>>
        ELSE IF Threw(viaChildren) THEN <<SetupEvent(u, by)>> \o viaChildren
        ELSE <<SetupEvent(u, by)>> \o viaChildren \o OwnRegistrations(u)

\* childControllers.forEach(c => c.setup(app)): an exception ends the loop
SetupEach(cs, by) ==
    IF cs = <<>> THEN <<>>
    ELSE LET first == ControllerSetup(Head(cs), by)
         IN  IF Threw(first) THEN first ELSE first \o SetupEach(Tail(cs), by)

IsRoute(e) == e.ev = "route"

IsSetup(e) == e.ev = "setup"

ToLayer(e) == RouteLayer(e.verb, e.path, e.unit)

-----------------------------------------------------------------------------
(* Router.checkIfControllerFile: discovery *)

\* an export of a module: is it a class, and what its prototype chain holds
ExportedController(u) ==
    [class |-> TRUE, base |-> "BaseController", unit |-> u, code |-> 0]

ExportedErrorController(code) ==
    [class |-> TRUE, base |-> "ErrorController", unit |-> "", code |-> code]

\* a class that extends neither
PlainClass == [class |-> TRUE, base |-> "Object", unit |-> "", code |-> 0]

\* an export that is not a class
PlainExport == [class |-> FALSE, base |-> "Object", unit |-> "", code |-> 0]

\* a .js file: does require load it, and what it exports
JsModule(exports, loads) ==
    [kind |-> "file", js |-> TRUE, loads |-> loads, exports |-> exports, entries |-> <<>>]

\* a .js file that exports the controllers cs and the error controllers es
JsFile(cs, es, loads) ==
    JsModule([i \in 1..Len(cs) |-> ExportedController(cs[i])]
                 \o [i \in 1..Len(es) |-> ExportedErrorController(es[i])], loads)

\* a file whose name does not end in .js, whatever it holds
OtherFile ==
    [kind |-> "file", js |-> FALSE, loads |-> TRUE,
     exports |-> <<ExportedController("A"), ExportedErrorController(404)>>,
     entries |-> <<>>]

Dir(entries) ==
    [kind |-> "dir", js |-> FALSE, loads |-> TRUE, exports |-> <<>>, entries |-> entries]

\* Object.keys(controllerModule).filter(typeof ... === 'function' && /^\s*class\s+/)
classes(exports) == SelectSeq(exports, LAMBDA e : e.class)

\* classes.filter(prototype instanceof BaseController).map(...)
controllersIn(exports) ==
    LET found == SelectSeq(classes(exports), LAMBDA e : e.base = "BaseController")
    IN  [i \in 1..Len(found) |-> found[i].unit]

\* classes.filter(prototype instanceof ErrorController).map(...)
errorControllersIn(exports) ==
    LET found == SelectSeq(classes(exports), LAMBDA e : e.base = "ErrorController")
    IN  [i \in 1..Len(found) |-> found[i].code]

\* a `controllers` or `errorControllers` property: null, or an array
Null == [null |-> TRUE, items |-> <<>>]

Found(items) == [null |-> FALSE, items |-> items]

RECURSIVE Flat(_)
\* values.filter(v => v !== null).flat()
Flat(values) ==
    IF values = <<>> THEN <<>>
    ELSE (IF Head(values).null THEN <<>> ELSE Head(values).items) \o Flat(Tail(values))

\* a directory that hands on what its first entry found
InDirFirstOnly(values) == values[1]

\* the property of a directory: the one result as it is, or the results flattened
InDir(values) == IF Len(values) > 1 THEN Found(Flat(values)) ELSE values[1]

RECURSIVE checkIfControllerFile(_)
\* the promise checkIfControllerFile returns for one entry: rejected (threw),
\* or resolved with controllers and errorControllers. Both switch statements
\* fall through to their default, so a loaded file gives two arrays.
checkIfControllerFile(entry) ==
    IF entry.kind = "dir"
    THEN LET controllersFoundInDir ==
                 [i \in 1..Len(entry.entries) |-> checkIfControllerFile(entry.entries[i])]
             n == Len(controllersFoundInDir)
         IN  IF \E i \in 1..n : controllersFoundInDir[i].threw
             THEN [threw |-> TRUE, controllers |-> Null, errorControllers |-> Null]
             ELSE IF n = 0
             THEN [threw |-> FALSE, controllers |-> Null, errorControllers |-> Null]
             ELSE [threw |-> FALSE,
                   controllers |->
                       InDir([i \in 1..n |-> controllersFoundInDir[i].controllers]),
                   errorControllers |->
                       InDir([i \in 1..n |-> controllersFoundInDir[i].errorControllers])]
    ELSE IF ~entry.js
    THEN [threw |-> FALSE, controllers |-> Null, errorControllers |-> Null]
    ELSE IF ~entry.loads
    THEN [threw |-> TRUE, controllers |-> Null, errorControllers |-> Null]
    ELSE [threw |-> FALSE, controllers |-> Found(controllersIn(entry.exports)),
          errorControllers |-> Found(errorControllersIn(entry.exports))]

\* files.map(file => checkIfControllerFile(file, controllersPath))
loadedControllerObjects == [i \in 1..Len(root) |-> checkIfControllerFile(root[i])]

\* await Promise.all(...) rejects when one of the promises is rejected
DiscoveryRejects == \E i \in 1..Len(root) : loadedControllerObjects[i].threw

\* a scan that is over with the first entry classified
ScanSettledAny == classified # {}

\* Promise.all(...) resolves when every promise has resolved
ScanSettled == classified = 1..Len(root)

-----------------------------------------------------------------------------
(* Router.setupControllers: partition and report *)

controllersWithChildControllers ==
    SelectSeq(loadedControllers, LAMBDA c : childMeta[c] # Undefined)

\* the metadata values themselves: a class, or an array of classes
childrenControllers ==
    [i \in 1..Len(controllersWithChildControllers) |->
        childMeta[controllersWithChildControllers[i]]]

\* a test that only sees the parents discovered before c
ChildrenIncludesEarlierParents(c) ==
    \E i \in 1..Len(loadedControllers) : \E j \in 1..(i - 1) :
        /\ loadedControllers[i] = c
        /\ childMeta[loadedControllers[j]] = Single(c)

\* childrenControllers.includes(c): an element that is an array is never a class
ChildrenIncludes(c) ==
    \E i \in 1..Len(childrenControllers) :
        childrenControllers[i].kind = "single" /\ childrenControllers[i].cs[1] = c

controllersWithoutChildren ==
    SelectSeq(loadedControllers,
              LAMBDA c : ~Includes(controllersWithChildControllers, c)
                         /\ ~ChildrenIncludes(c))

\* a list that puts the controllers without children first
StandaloneFirst == controllersWithoutChildren \o controllersWithChildControllers

\* [...controllersWithChildControllers, ...controllersWithoutChildren]
topLevelControllers == controllersWithChildControllers \o controllersWithoutChildren

ReportEntry(verb, path, u) == [verb |-> verb, path |-> path, unit |-> u]

\* the addedRoutes entries of one class: GET, POST, PUT, DELETE
\* getRoutesInController throws for a class without 'originalClass' metadata
\* and the routes stay empty
ReportOf(u) ==
    LET d == Descriptors(u)
        Ent(verb, paths) == [i \in 1..Len(paths) |-> ReportEntry(verb, paths[i], u)]
    IN  IF u \in undecorated THEN <<>>
        ELSE Ent("GET", d.GET) \o Ent("POST", d.POST) \o Ent("PUT", d.PUT)
                \o Ent("DELETE", d.DELETE)

RECURSIVE ReportEach(_)
ReportEach(cs) == IF cs = <<>> THEN <<>> ELSE ReportOf(Head(cs)) \o ReportEach(Tail(cs))

\* processControllerRoutes(app, m, false) for one element of childrenControllers
ReportChild(m) == ReportEach(m.cs)

RECURSIVE ReportChildrenFrom(_)
ReportChildrenFrom(ms) ==
    IF ms = <<>> THEN <<>> ELSE ReportChild(Head(ms)) \o ReportChildrenFrom(Tail(ms))

-----------------------------------------------------------------------------
(* Router operations *)

\* the awaits of setupControllers, and the time before and after it
AtAwait ==
    \/ pc \in {"new", "catchall", "done"}
    \/ pc = "toplevel" /\ idx = 1

\* a list that takes no route once the catch-all is registered
RoutesFrozenAfterSetup(route) ==
    IF pc # "done" /\ ~Includes(outsideFrameworkRoutes, route)
    THEN Append(outsideFrameworkRoutes, route)
    ELSE outsideFrameworkRoutes

\* a list that takes every route it is handed
RoutesAfterPush(route) == Append(outsideFrameworkRoutes, route)

\* this.outsideFrameworkRoutes after addOutsideFrameworkRoute(route)
RoutesAfterAdd(route) ==
    IF ~Includes(outsideFrameworkRoutes, route)
    THEN Append(outsideFrameworkRoutes, route)
    ELSE outsideFrameworkRoutes

AddOutsideFrameworkRoute(route) ==
    /\ AtAwait
    /\ outsideFrameworkRoutes' = RoutesAfterAdd(route)
    /\ everAdded' = everAdded \cup {route}
    /\ readded' = IF Includes(outsideFrameworkRoutes, route) THEN readded \cup {route}
                  ELSE readded
    /\ UNCHANGED <<configVars, pc, idx, addedRoutes, appStack, setupLog, rejected, req,
                   pageVars, oauthVars,
                   healthVars>>

\* checkIfControllerFile(file, controllersPath) of one entry of the folder
\* settles, its subfolders and modules loaded: nothing of the Router or of
\* the app is touched. The promises of the other entries go on after
\* Promise.all has rejected.
ClassifyEntry(i) ==
    /\ pc = "discover" \/ (pc = "failed" /\ ~rejected)
    /\ i \in 1..Len(root) \ classified
    /\ classified' = classified \cup {i}
    /\ UNCHANGED <<root, undecorated, rejecting, childMeta, loadedControllers, errCodes,
                   routerVars, req, pageVars, oauthVars, healthVars>>

\* await Promise.all(...) is over: the controllers and the error controllers
\* found, or the end of setupControllers as soon as a load has thrown
Discover ==
    /\ pc = "discover"
    /\ \E found \in {loadedControllerObjects} :
           IF \E i \in classified : found[i].threw
           THEN /\ pc' = "failed"
                /\ UNCHANGED <<loadedControllers, errCodes>>
           ELSE /\ ScanSettled
                /\ pc' = "new"
                /\ loadedControllers' =
                       Flat([i \in 1..Len(root) |-> found[i].controllers])
                /\ errCodes' =
                       Flat([i \in 1..Len(root) |-> found[i].errorControllers])
    /\ UNCHANGED <<root, undecorated, rejecting, classified, childMeta,
                   outsideFrameworkRoutes, idx, addedRoutes, appStack, setupLog, rejected,
                   everAdded, readded, req, pageVars, oauthVars, healthVars>>

\* the pass over childrenControllers with callSetup = false
ReportChildren ==
    /\ pc = "new"
    /\ addedRoutes' = addedRoutes \o ReportChildrenFrom(childrenControllers)
    /\ pc' = "toplevel"
    /\ idx' = 1
    /\ UNCHANGED <<configVars, outsideFrameworkRoutes, appStack, setupLog, rejected,
                   everAdded, readded, req, pageVars, oauthVars,
                   healthVars>>

\* processControllerRoutes(app, topLevelControllers[idx]) with callSetup = true:
\* a setup that throws rejects the promise of this controller, its routes
\* are not returned, and map goes on to the next controller
ProcessTopLevel ==
    /\ pc = "toplevel"
    /\ idx <= Len(topLevelControllers)
    /\ \E u \in {topLevelControllers[idx]} :
       \E events \in {ControllerSetup(u, "Router")} :
       LET routes == SelectSeq(events, IsRoute)
       IN  /\ addedRoutes' = IF Threw(events) THEN addedRoutes
                             ELSE addedRoutes \o ReportOf(u)
           /\ appStack' = appStack \o [i \in 1..Len(routes) |-> ToLayer(routes[i])]
           /\ setupLog' = setupLog \o events
           /\ rejected' = (rejected \/ Threw(events))
    /\ idx' = idx + 1
    /\ UNCHANGED <<configVars, outsideFrameworkRoutes, pc, everAdded, readded, req, pageVars, oauthVars,
                   healthVars>>

\* a pass whose Promise.all never settles
TopLevelPending ==
    /\ pc = "toplevel"
    /\ idx > Len(topLevelControllers)
    /\ UNCHANGED vars

\* await Promise.all(...) of the pass: a rejected promise ends setupControllers
TopLevelDone ==
    /\ pc = "toplevel"
    /\ idx > Len(topLevelControllers)
    /\ pc' = IF rejected THEN "failed" ELSE "catchall"
    /\ UNCHANGED <<configVars, outsideFrameworkRoutes, idx, addedRoutes, appStack,
                   setupLog, rejected, everAdded, readded, req, pageVars, oauthVars,
                   healthVars>>

CatchAllLayer ==
    [kind |-> "catchall", verb |-> "GET", path |-> "*", unit |-> "", code |-> 0,
     handlers |-> <<"fn">>]

ErrorLayer(code) ==
    [kind |-> "error", verb |-> "", path |-> "", unit |-> "", code |-> code,
     handlers |-> <<"handle">>]

\* an installation that puts the error controllers ahead of the catch-all
ErrorControllersThenCatchAll ==
    [i \in 1..Len(errCodes) |-> ErrorLayer(errCodes[i])] \o <<CatchAllLayer>>

\* app.get('*', ...) and then app.use(handle) of every error controller
CatchAllThenErrorControllers ==
    <<CatchAllLayer>> \o [i \in 1..Len(errCodes) |-> ErrorLayer(errCodes[i])]

InstallCatchAllAndErrorControllers ==
    /\ pc = "catchall"
    /\ appStack' = appStack \o CatchAllThenErrorControllers
    /\ pc' = "done"
    /\ UNCHANGED <<configVars, outsideFrameworkRoutes, idx, addedRoutes, setupLog,
                   rejected, everAdded, readded, req, pageVars, oauthVars,
                   healthVars>>

-----------------------------------------------------------------------------
(* Serving a request: the Express app walks its layers in registration order *)

NoReq ==
    [stage |-> "none", verb |-> "", path |-> "", statusCode |-> 0, headersSent |-> FALSE,
     err |-> "none", pos |-> 0, matched |-> FALSE, catchAll |-> "notrun",
     statusAtCatchAll |-> 0, exempt |-> FALSE, addedAtArrival |-> FALSE,
     addedBefore |-> FALSE, calls |-> <<>>, end |-> ""]

NewReq(verb, path) ==
    [NoReq EXCEPT !.stage = "routing", !.verb = verb, !.path = path, !.statusCode = 200,
                  !.addedAtArrival = path \in everAdded]

\* does layer l take request r: a route of the same verb and path, the GET
\* catch-all for any path, an error handler only while an error is passed on
LayerTakes(l, r) ==
    IF r.err = "none"
    THEN \/ l.kind = "route" /\ l.verb = r.verb /\ l.path = r.path
         \/ l.kind = "catchall" /\ l.verb = r.verb
    ELSE l.kind = "error"

\* the index of the next layer after r.pos that takes r, or 0
NextLayer(r) ==
    LET takers == {i \in (r.pos + 1)..Len(appStack) : LayerTakes(appStack[i], r)}
    IN  IF takers = {} THEN 0 ELSE CHOOSE i \in takers : \A j \in takers : i <= j

Serving == pc = "done" /\ req.stage = "routing"

\* app.listen has been called: a request comes in
RequestArrives(verb, path) ==
    /\ pc = "done"
    /\ req.stage \in {"none", "done"}
    /\ req' = NewReq(verb, path)
    /\ UNCHANGED <<configVars, routerVars, pageVars, oauthVars,
                   healthVars>>

\* what a controller method may do: answer, call next(), or call next(error),
\* after setting a status and possibly after the headers went out
RouteOutcomes ==
    [do : {"answer", "next", "error"}, status : StatusCodes, sent : BOOLEAN]

AfterRoute(r, outcome) ==
    CASE outcome.do = "answer" ->
            [r EXCEPT !.stage = "done", !.headersSent = TRUE,
                      !.statusCode = outcome.status, !.end = "answered"]
      [] outcome.do = "next" ->
            [r EXCEPT !.headersSent = outcome.sent, !.statusCode = outcome.status]
      [] OTHER ->
            [r EXCEPT !.headersSent = outcome.sent, !.statusCode = outcome.status,
                      !.err = "handler error"]

\* a controller method bound by setup runs for the request
RouteHandler(outcome) ==
    /\ Serving
    /\ NextLayer(req) # 0
    /\ appStack[NextLayer(req)].kind = "route"
    /\ req' = AfterRoute([req EXCEPT !.pos = NextLayer(req), !.matched = TRUE], outcome)
    /\ UNCHANGED <<configVars, routerVars, pageVars, oauthVars,
                   healthVars>>

\* this.outsideFrameworkRoutes.includes(req.path), read when the request is served
IsOutsideFrameworkRoute(path) == Includes(outsideFrameworkRoutes, path)

\* the handler of app.get('*', ...)
CatchAll ==
    /\ Serving
    /\ NextLayer(req) # 0
    /\ appStack[NextLayer(req)].kind = "catchall"
    /\ LET seen == [req EXCEPT !.pos = NextLayer(req),
                               !.statusAtCatchAll = req.statusCode,
                               !.exempt = IsOutsideFrameworkRoute(req.path),
                               !.addedBefore = req.path \in everAdded]
       IN  req' = IF IsOutsideFrameworkRoute(req.path)
                  THEN [seen EXCEPT !.catchAll = "next"]
                  ELSE [seen EXCEPT !.catchAll = "notfound", !.statusCode = 404,
                                    !.err = "Page Not Found"]
    /\ UNCHANGED <<configVars, routerVars, pageVars, oauthVars,
                   healthVars>>

\* a wrapper that does not compare the status with its code
WrapperDecisionUngated(errorCode, res) ==
    IF res.headersSent THEN "next" ELSE "handle"

\* a wrapper that does not look at res.headersSent
WrapperDecisionStatusOnly(errorCode, res) ==
    IF res.statusCode = errorCode THEN "handle" ELSE "next"

\* what the wrapper of @ErrorHandler(errorCode) does with response res:
\* "next" forwards the error, "handle" invokes the decorated class's handle
WrapperDecision(errorCode, res) ==
    IF res.headersSent THEN "next"
    ELSE IF res.statusCode = errorCode THEN "handle"
    ELSE "next"

\* new (Reflect.getMetadata('errorHandler', target))(): the wrapper constructs
\* the decorated class whenever the headers are not sent, before it looks at
\* the status code
ConstructsController(res) == ~res.headersSent

ErrorCall(code, r, decision) ==
    [code |-> code, statusCode |-> r.statusCode, headersSent |-> r.headersSent,
     decision |-> decision, error |-> r.err, constructed |-> ConstructsController(r)]

\* what a decorated class's own handle may do with the response
HandleOutcomes ==
    {[do |-> d, status |-> 0] : d \in {"send", "next", "sendThenNext"}}
        \cup {[do |-> "status", status |-> s] : s \in StatusCodes}

AfterHandle(r, outcome) ==
    CASE outcome.do = "send" -> [r EXCEPT !.headersSent = TRUE, !.stage = "done",
                                          !.end = "error page"]
      [] outcome.do = "next" -> r
      [] outcome.do = "sendThenNext" -> [r EXCEPT !.headersSent = TRUE]
      [] OTHER -> [r EXCEPT !.statusCode = outcome.status]

\* handle(error, req, res, next) of the class @ErrorHandler returns
ErrorWrapper(outcome) ==
    /\ Serving
    /\ NextLayer(req) # 0
    /\ appStack[NextLayer(req)].kind = "error"
    /\ LET i == NextLayer(req)
           code == appStack[i].code
           decision == WrapperDecision(code, req)
           logged == [req EXCEPT !.pos = i,
                                 !.calls = Append(@, ErrorCall(code, req, decision))]
       IN  req' = IF decision = "handle" THEN AfterHandle(logged, outcome) ELSE logged
    /\ UNCHANGED <<configVars, routerVars, pageVars, oauthVars,
                   healthVars>>

\* no layer is left: Express's own final handler ends the request
TransportDefault ==
    /\ Serving
    /\ NextLayer(req) = 0
    /\ req' = [req EXCEPT !.stage = "done", !.headersSent = TRUE,
                          !.exempt = IF req.catchAll = "notrun"
                                     THEN IsOutsideFrameworkRoute(req.path)
                                     ELSE req.exempt,
                          !.end = "beyond the framework"]
    /\ UNCHANGED <<configVars, routerVars, pageVars, oauthVars,
                   healthVars>>

-----------------------------------------------------------------------------
(* @Page: the wrapper around a controller method *)

\* an argument: is it truthy, and what typeof arg.render gives
ArgValues ==
    {[name |-> "req", truthy |-> TRUE, render |-> "undefined"],
     [name |-> "res", truthy |-> TRUE, render |-> "function"],
     [name |-> "null", truthy |-> FALSE, render |-> "undefined"],
     [name |-> "fake", truthy |-> TRUE, render |-> "string"]}

\* obj && typeof obj.render === 'function'
isResponse(obj) == obj.truthy /\ obj.render = "function"

ResponseArgs(args) == {i \in 1..Len(args) : isResponse(args[i])}

\* keys and values of the objects a decorated method returns
OutKeys == {"title", "foo", "0"}

OutVals == {"x", "y"}

\* a JavaScript value: its kind, its truth value if a boolean, and its own
\* enumerable entries as Object.entries lists them
JsValue(kind, b, entries) == [kind |-> kind, b |-> b, entries |-> entries]

NoOutput == JsValue("none", FALSE, {})

ObjectValues ==
    {JsValue("object", FALSE, {<<k, f[k]>> : k \in K}) :
        K \in SUBSET OutKeys, f \in [OutKeys -> OutVals]}

ArrayValues ==
    {JsValue("array", FALSE, {<<"0", v>>}) : v \in OutVals}
        \cup {JsValue("array", FALSE, {})}

Outputs ==
    {JsValue("boolean", TRUE, {}), JsValue("boolean", FALSE, {}),
     JsValue("undefined", FALSE, {}), JsValue("null", FALSE, {}),
     JsValue("string", FALSE, {}), JsValue("number", FALSE, {})}
        \cup ArrayValues \cup ObjectValues

\* JavaScript's typeof
TypeOf(v) == IF v.kind \in {"null", "array", "object"} THEN "object" ELSE v.kind

\* Object.entries(v) throws a TypeError for null and undefined
EntriesThrows(v) == v.kind \in {"null", "undefined"}

\* typeof output === 'boolean' && !output
IsFalse(output) == TypeOf(output) = "boolean" /\ ~output.b

\* the property names of the elements of an array
IndexKeys == <<"0", "1", "2", "3">>

\* { title, page, extraStyles, extraScripts, ...otherParams }: spreading the
\* array otherParams gives one property per index
SeedParams(cfg) ==
    LET n == Len(cfg.otherParams)
    IN  [k \in {"title", "page", "extraStyles", "extraScripts"}
                \cup {IndexKeys[i] : i \in 1..n} |->
            CASE k = "title" -> cfg.title
              [] k = "page" -> cfg.page
              [] k = "extraStyles" -> cfg.extraStyles
              [] k = "extraScripts" -> cfg.extraScripts
              [] OTHER -> cfg.otherParams[CHOOSE i \in 1..n : IndexKeys[i] = k]]

\* a merge in which the decorator's values win over the output's
MergedParamsDefaultsWin(seed, entries) ==
    LET keys == {e[1] : e \in entries}
    IN  [k \in DOMAIN seed \cup keys |->
            IF k \in DOMAIN seed THEN seed[k] ELSE (CHOOSE e \in entries : e[1] = k)[2]]

\* renderParams[entry[0]] = entry[1] for every entry of the output
MergedParams(seed, entries) ==
    LET keys == {e[1] : e \in entries}
    IN  [k \in DOMAIN seed \cup keys |->
            IF k \in keys THEN (CHOOSE e \in entries : e[1] = k)[2] ELSE seed[k]]

\* a check that only looks for a missing response
PreconditionFailsOnlyNone(args) ==
    ~(\E i \in 1..Len(args) : isResponse(args[i]))

\* a check that only looks for more than one response
PreconditionFailsOnlyMany(args) == Cardinality(ResponseArgs(args)) > 1

\* !args.some(isResponse) || args.filter(isResponse).length > 1
PreconditionFails(args) ==
    \/ ~(\E i \in 1..Len(args) : isResponse(args[i]))
    \/ Cardinality(ResponseArgs(args)) > 1

\* args.find(arg => isResponse(arg)): the first response among the arguments
FindResponse(args) == CHOOSE i \in ResponseArgs(args) : \A j \in ResponseArgs(args) : i <= j

\* the wrapper is called: it checks its arguments and calls the method
PageCall(args) ==
    /\ pagePc = "idle"
    /\ pageArgs' = args
    /\ IF PreconditionFails(args)
       THEN /\ warnings' = warnings + 1
            /\ pagePc' = "returned"
            /\ UNCHANGED handlerRuns
       ELSE /\ pagePc' = "awaiting"
            /\ handlerRuns' = handlerRuns + 1
            /\ UNCHANGED warnings
    /\ UNCHANGED <<configVars, routerVars, req, oauthVars, healthVars, pageCfg
                  , pageOutput, renders>>

\* the awaited method returns output: the wrapper renders, or not
PageResume(output) ==
    /\ pagePc = "awaiting"
    /\ pageOutput' = output
    /\ IF IsFalse(output)
       THEN pagePc' = "returned" /\ UNCHANGED renders
       ELSE IF TypeOf(output) = "object" /\ EntriesThrows(output)
       THEN pagePc' = "threw" /\ UNCHANGED renders
       ELSE /\ renders' = Append(renders,
                [arg |-> FindResponse(pageArgs), view |-> "base",
                 params |-> IF TypeOf(output) = "object"
                            THEN MergedParams(SeedParams(pageCfg), output.entries)
                            ELSE SeedParams(pageCfg)])
            /\ pagePc' = "returned"
    /\ UNCHANGED <<configVars, routerVars, req, oauthVars, healthVars, pageCfg
                  , pageArgs, warnings, handlerRuns>>

\* the awaited method throws: the wrapper's promise rejects
PageHandlerThrows ==
    /\ pagePc = "awaiting"
    /\ pagePc' = "threw"
    /\ UNCHANGED <<configVars, routerVars, req, oauthVars, healthVars, pageCfg
                  , pageArgs, pageOutput, renders,
                   warnings, handlerRuns>>

PageConfigs ==
    [title : {"T"}, page : {"P"}, extraStyles : {"S"}, extraScripts : {"J"},
     otherParams : SeqsUpTo({"o"}, MaxOtherParams)]

PageIdle ==
    /\ pagePc = "idle"
    /\ pageArgs = <<>>
    /\ pageOutput = NoOutput
    /\ renders = <<>>
    /\ warnings = 0
    /\ handlerRuns = 0

-----------------------------------------------------------------------------
(* OAuthApp: run, onStart, setupOAuthClient *)

JWKS == "/.well-known/jwks.json"

\* an OAuthApp: are BASE_APP_URL and APP_ABBRV there, is a callback handed to
\* run, and the routes client.getSetupRoutes() returns
OAuthApps ==
    [envOk : BOOLEAN, hasCallback : BOOLEAN, setupRoutes : {<<>>, <<"/c">>, <<"/c", JWKS>>}]

\* the listen callback has not run
OAuthIdle ==
    /\ oauthCfg = [envOk |-> TRUE, hasCallback |-> TRUE, setupRoutes |-> <<>>]
    /\ oauthPc = "idle"
    /\ oauthLog = <<>>

RECURSIVE AddEach(_, _)
\* routes.forEach(route => addOutsideFrameworkRoute(route)) on a list
AddEach(list, routes) ==
    IF routes = <<>> THEN list
    ELSE AddEach(IF Includes(list, Head(routes)) THEN list ELSE Append(list, Head(routes)),
                 Tail(routes))

\* a setupOAuthClient that calls Client.setup before it exempts the key set
ClientSetupFirst == <<"Client.setup called", "jwks exempt">>

\* setupOAuthClient from the exemption of the key set to the await
BeforeClientSetup == <<"jwks exempt", "Client.setup called">>

\* the catch block of onStart: three console.error calls, onStart returns
Caught(what) == <<what, "error logged">>

\* the callback of listen runs: onStart, setupOAuthClient up to its await.
\* init, and with it Router.setup, was awaited before listen was called.
OnStart ==
    /\ pc = "done"
    /\ oauthPc = "idle"
    /\ IF oauthCfg.envOk
       THEN /\ outsideFrameworkRoutes' = RoutesAfterAdd(JWKS)
            /\ everAdded' = everAdded \cup {JWKS}
            /\ readded' = IF Includes(outsideFrameworkRoutes, JWKS)
                          THEN readded \cup {JWKS} ELSE readded
            /\ oauthLog' = oauthLog \o BeforeClientSetup
            /\ oauthPc' = "clientSetup"
       ELSE /\ oauthLog' = oauthLog \o Caught("setup threw")
            /\ oauthPc' = "returned"
            /\ UNCHANGED <<outsideFrameworkRoutes, everAdded, readded>>
    /\ UNCHANGED <<configVars, pc, idx, addedRoutes, appStack, setupLog, rejected, req,
                   pageVars, oauthCfg, healthVars>>

\* Client.setup resolves: the client's routes are exempted, setupOAuthClient
\* returns and onStart invokes the callback if there is one
ClientSetupResolves ==
    /\ oauthPc = "clientSetup"
    /\ outsideFrameworkRoutes' = AddEach(outsideFrameworkRoutes, oauthCfg.setupRoutes)
    /\ everAdded' = everAdded \cup Range(oauthCfg.setupRoutes)
    /\ readded' = readded \cup {r \in Range(oauthCfg.setupRoutes) :
                                    Includes(outsideFrameworkRoutes, r)}
    /\ oauthLog' = oauthLog \o <<"Client.setup resolved", "setup routes exempt">>
                        \o (IF oauthCfg.hasCallback THEN <<"callback invoked">> ELSE <<>>)
    /\ oauthPc' = IF oauthCfg.hasCallback THEN "callback" ELSE "returned"
    /\ UNCHANGED <<configVars, pc, idx, addedRoutes, appStack, setupLog, rejected, req,
                   pageVars, oauthCfg, healthVars>>

\* Client.setup rejects: the catch block of onStart
ClientSetupRejects ==
    /\ oauthPc = "clientSetup"
    /\ oauthLog' = oauthLog \o Caught("setup threw")
    /\ oauthPc' = "returned"
    /\ UNCHANGED <<configVars, routerVars, req, pageVars, oauthCfg, healthVars>>

\* the callback handed to run returns or resolves
CallbackReturns ==
    /\ oauthPc = "callback"
    /\ oauthLog' = Append(oauthLog, "callback returned")
    /\ oauthPc' = "returned"
    /\ UNCHANGED <<configVars, routerVars, req, pageVars, oauthCfg, healthVars>>

\* the callback handed to run throws or rejects: the catch block of onStart
CallbackThrows ==
    /\ oauthPc = "callback"
    /\ oauthLog' = oauthLog \o Caught("callback threw")
    /\ oauthPc' = "returned"
    /\ UNCHANGED <<configVars, routerVars, req, pageVars, oauthCfg, healthVars>>

\* the server listens: requests come in from the callback of listen on
Listening == oauthPc # "idle"

-----------------------------------------------------------------------------
(* HealthCheckMiddleware *)

HEALTH_CHECK_ENDPOINT == "/.well-known/health-check"

\* enum HealthCheckStatus
HealthCheckStatus == {"ok", "error"}

\* the paths of the requests handed to a health-check middleware
HealthPaths == {HEALTH_CHECK_ENDPOINT, "/a"}

\* nothing has been handed to a health-check middleware yet
NoResp ==
    [instance |-> 0, path |-> "", code |-> 0, body |-> "", next |-> FALSE,
     written |-> "undefined"]

\* no HealthCheckMiddleware has been constructed
HealthIdle ==
    /\ hcStatus = "undefined"
    /\ hcInstances = <<>>
    /\ hcLastWrite = "undefined"
    /\ hcResp = NoResp

\* healthCheckMiddleware(initialStatus): the constructor writes the static
\* field, the bound middleware of the new instance is returned
HealthCheckConstruct(initialStatus) ==
    /\ Len(hcInstances) < MaxInstances
    /\ hcInstances' = Append(hcInstances, initialStatus)
    /\ hcStatus' = initialStatus
    /\ hcLastWrite' = initialStatus
    /\ UNCHANGED <<configVars, routerVars, req, pageVars, oauthVars, hcResp>>

\* HealthCheckMiddleware.setStatus(status)
HealthCheckSetStatus(status) ==
    /\ hcStatus' = status
    /\ hcLastWrite' = status
    /\ UNCHANGED <<configVars, routerVars, req, pageVars, oauthVars, hcInstances, hcResp>>

\* a status every instance keeps for itself
StatusOfInstance(i) == hcInstances[i]

\* HealthCheckMiddleware.status as the middleware of instance i reads it
StatusRead(i) == hcStatus

\* instance.middleware(req, res, next) for a request of the given path
HealthCheckMiddleware(i, path) ==
    /\ i \in 1..Len(hcInstances)
    /\ hcResp' =
           IF path = HEALTH_CHECK_ENDPOINT /\ StatusRead(i) = "ok"
           THEN [instance |-> i, path |-> path, code |-> 200, body |-> "ok",
                 next |-> FALSE, written |-> hcLastWrite]
           ELSE IF path = HEALTH_CHECK_ENDPOINT /\ StatusRead(i) = "error"
           THEN [instance |-> i, path |-> path, code |-> 500, body |-> "error",
                 next |-> FALSE, written |-> hcLastWrite]
           ELSE [instance |-> i, path |-> path, code |-> 0, body |-> "",
                 next |-> TRUE, written |-> hcLastWrite]
    /\ UNCHANGED <<configVars, routerVars, req, pageVars, oauthVars, hcStatus,
                   hcInstances, hcLastWrite>>

-----------------------------------------------------------------------------
RouterNew ==
    /\ outsideFrameworkRoutes = <<>>
    /\ idx = 1
    /\ addedRoutes = <<>>
    /\ appStack = <<>>
    /\ setupLog = <<>>
    /\ rejected = FALSE
    /\ everAdded = {}
    /\ readded = {}
    /\ req = NoReq

\* every discovered class is decorated and none of its routes is rejected
NoFaults ==
    /\ root = <<>>
    /\ classified = {}
    /\ undecorated = {}
    /\ rejecting = {}

Init ==
    /\ childMeta \in {m \in [Units -> ChildDecls] : Acyclic(m)}
    /\ loadedControllers \in Orderings(Units)
    /\ errCodes \in SeqsUpTo(ErrCodes, MaxErrCtl)
    /\ NoFaults
    /\ pc = "new"
    /\ RouterNew
    /\ pageCfg = [title |-> "T", page |-> "P", extraStyles |-> "S", extraScripts |-> "J",
                  otherParams |-> <<>>]
    /\ PageIdle
    /\ OAuthIdle
    /\ HealthIdle

\* Router.setup, with addOutsideFrameworkRoute called at any await
Next ==
    \/ \E route \in OutsidePaths : AddOutsideFrameworkRoute(route)
    \/ ReportChildren
    \/ ProcessTopLevel
    \/ TopLevelDone
    \/ InstallCatchAllAndErrorControllers

Spec == Init /\ [][Next]_vars

\* the applications served: no children, or B declaring the child A
ServedApps ==
    {[u \in Units |-> Undefined],
     [u \in Units |-> IF u = "B" THEN Single("A") ELSE Undefined]}

InitServe ==
    /\ childMeta \in ServedApps
    /\ loadedControllers = <<"A", "B", "C">>
    /\ errCodes \in SeqsUpTo(ErrCodes, MaxErrCtl)
    /\ NoFaults
    /\ pc = "new"
    /\ RouterNew
    /\ pageCfg = [title |-> "T", page |-> "P", extraStyles |-> "S", extraScripts |-> "J",
                  otherParams |-> <<>>]
    /\ PageIdle
    /\ OAuthIdle
    /\ HealthIdle

\* Router.setup followed by the app serving requests
NextServe ==
    \/ \E route \in OutsidePaths : AddOutsideFrameworkRoute(route)
    \/ ReportChildren
    \/ ProcessTopLevel
    \/ TopLevelDone
    \/ InstallCatchAllAndErrorControllers
    \/ \E verb \in Range(Verbs), path \in ReqPaths : RequestArrives(verb, path)
    \/ \E outcome \in RouteOutcomes : RouteHandler(outcome)
    \/ CatchAll
    \/ \E outcome \in HandleOutcomes : ErrorWrapper(outcome)
    \/ TransportDefault

SpecServe == InitServe /\ [][NextServe]_vars

\* the file that exports controller u, and with B and C an error controller
SourceFile(u, loads) ==
    CASE u = "A" -> JsModule(<<PlainClass, ExportedController("A"), PlainExport>>, loads)
      [] u = "B" -> JsFile(<<"B">>, <<404>>, loads)
      [] OTHER   -> JsFile(<<"C">>, <<500>>, loads)

\* the controllers folders: the first k files of an ordering at the top, then
\* a file that is not JavaScript, then a subfolder with the other files, the
\* last of them one folder further down when the tree is deep; when packed,
\* the first file holds the exports of the second as well, and the second
\* exports nothing
Trees ==
    {LET S(i) == SourceFile(o[i], o[i] \notin broken)
         F(i) == IF ~packed THEN S(i)
                 ELSE IF i = 1 THEN JsModule(S(1).exports \o S(2).exports,
                                             S(1).loads /\ S(2).loads)
                 ELSE IF i = 2 THEN JsModule(<<>>, TRUE)
                 ELSE S(i)
         top == [i \in 1..k |-> F(i)]
         rest == [i \in 1..(3 - k) |-> F(k + i)]
         sub == IF deep /\ rest # <<>>
                THEN Dir(SubSeq(rest, 1, Len(rest) - 1) \o <<Dir(<<rest[Len(rest)]>>)>>)
                ELSE Dir(rest)
     IN  top \o <<OtherFile, sub>> :
        o \in Orderings(Units), k \in 0..3, deep \in BOOLEAN, packed \in BOOLEAN,
        broken \in {b \in SUBSET Units : Cardinality(b) <= MaxBroken}}

\* the classes that may miss @Controller, one at a time
UndecoratedChoices == {{}} \cup {{u} : u \in Units}

\* the classes that may hand Express a middleware it rejects, one at a time
RejectingChoices == {{}, {"B"}, {"C"}}

\* the child declarations of the applications started: none, B declaring
\* the child A, C declaring the children A and B
StartedApps ==
    ServedApps \cup {[u \in Units |-> IF u = "C" THEN Array(<<"A", "B">>) ELSE Undefined]}

InitStart ==
    /\ root \in Trees
    /\ undecorated \in UndecoratedChoices
    /\ rejecting \in RejectingChoices
    /\ classified = {}
    /\ childMeta \in StartedApps
    /\ loadedControllers = <<>>
    /\ errCodes = <<>>
    /\ pc = "discover"
    /\ RouterNew
    /\ pageCfg = [title |-> "T", page |-> "P", extraStyles |-> "S", extraScripts |-> "J",
                  otherParams |-> <<>>]
    /\ PageIdle
    /\ OAuthIdle
    /\ HealthIdle

\* Router.setup from the scan of the controllers folder on
NextStart ==
    \/ \E i \in 1..Len(root) : ClassifyEntry(i)
    \/ Discover
    \/ ReportChildren
    \/ ProcessTopLevel
    \/ TopLevelDone
    \/ InstallCatchAllAndErrorControllers

SpecStart == InitStart /\ [][NextStart]_vars

\* the child declarations of the applications whose start-up is followed to
\* its end: those above, a chain (C declares B, B declares A) and a child
\* shared by two parents
TerminatingApps ==
    StartedApps
        \cup {[u \in Units |-> IF u = "C" THEN Single("B")
                               ELSE IF u = "B" THEN Single("A") ELSE Undefined],
              [u \in Units |-> IF u = "A" THEN Undefined ELSE Array(<<"A">>)]}

InitTerminate ==
    /\ root \in Trees
    /\ undecorated \in UndecoratedChoices
    /\ rejecting \in RejectingChoices
    /\ classified = {}
    /\ childMeta \in TerminatingApps
    /\ loadedControllers = <<>>
    /\ errCodes = <<>>
    /\ pc = "discover"
    /\ RouterNew
    /\ pageCfg = [title |-> "T", page |-> "P", extraStyles |-> "S", extraScripts |-> "J",
                  otherParams |-> <<>>]
    /\ PageIdle
    /\ OAuthIdle
    /\ HealthIdle

\* Router.setup on Node's event loop: file system calls settle and every
\* continuation that is ready is run
SpecTerminate == InitTerminate /\ [][NextStart]_vars /\ WF_vars(NextStart)

InitRegister ==
    /\ childMeta \in {m \in [Units -> ChildDecls] : Acyclic(m)}
    /\ loadedControllers \in Orderings(Units)
    /\ errCodes \in SeqsUpTo(ErrCodes, MaxErrCtl)
    /\ NoFaults
    /\ pc = "new"
    /\ RouterNew
    /\ pageCfg = [title |-> "T", page |-> "P", extraStyles |-> "S", extraScripts |-> "J",
                  otherParams |-> <<>>]
    /\ PageIdle
    /\ OAuthIdle
    /\ HealthIdle

\* Router.setup on its own, no caller adding routes meanwhile
NextRegister ==
    \/ ReportChildren
    \/ ProcessTopLevel
    \/ TopLevelDone
    \/ InstallCatchAllAndErrorControllers

SpecRegister == InitRegister /\ [][NextRegister]_vars

InitPage ==
    /\ childMeta = [u \in Units |-> Undefined]
    /\ loadedControllers = <<"A", "B", "C">>
    /\ errCodes = <<>>
    /\ NoFaults
    /\ pc = "new"
    /\ RouterNew
    /\ pageCfg \in PageConfigs
    /\ PageIdle
    /\ OAuthIdle
    /\ HealthIdle

\* one call of a method decorated with @Page
NextPage ==
    \/ \E args \in SeqsUpTo(ArgValues, MaxArgs) : PageCall(args)
    \/ \E output \in Outputs : PageResume(output)
    \/ PageHandlerThrows

SpecPage == InitPage /\ [][NextPage]_vars

\* OAuthApp.run: Initializer.init with Router.setup, then listen and onStart
\* a request comes in once the server listens
RequestWhileListening(verb, path) == Listening /\ RequestArrives(verb, path)

InitOAuth ==
    /\ childMeta = [u \in Units |-> Undefined]
    /\ loadedControllers = <<"A", "B", "C">>
    /\ errCodes \in {<<>>, <<404>>}
    /\ NoFaults
    /\ pc = "new"
    /\ RouterNew
    /\ pageCfg = [title |-> "T", page |-> "P", extraStyles |-> "S", extraScripts |-> "J",
                  otherParams |-> <<>>]
    /\ PageIdle
    /\ oauthCfg \in OAuthApps
    /\ oauthPc = "idle"
    /\ oauthLog = <<>>
    /\ HealthIdle

NextOAuth ==
    \/ ReportChildren
    \/ ProcessTopLevel
    \/ TopLevelDone
    \/ InstallCatchAllAndErrorControllers
    \/ OnStart
    \/ ClientSetupResolves
    \/ ClientSetupRejects
    \/ CallbackReturns
    \/ CallbackThrows
    \/ \E verb \in Range(Verbs), path \in ReqPaths : RequestWhileListening(verb, path)
    \/ \E outcome \in RouteOutcomes : RouteHandler(outcome)
    \/ CatchAll
    \/ \E outcome \in HandleOutcomes : ErrorWrapper(outcome)
    \/ TransportDefault

SpecOAuth == InitOAuth /\ [][NextOAuth]_vars

\* an application that only constructs health-check middlewares
InitHealth ==
    /\ childMeta = [u \in Units |-> Undefined]
    /\ loadedControllers = <<>>
    /\ errCodes = <<>>
    /\ NoFaults
    /\ pc = "new"
    /\ RouterNew
    /\ pageCfg = [title |-> "T", page |-> "P", extraStyles |-> "S", extraScripts |-> "J",
                  otherParams |-> <<>>]
    /\ PageIdle
    /\ OAuthIdle
    /\ HealthIdle

\* constructions, status writes and requests in any order
NextHealth ==
    \/ \E initialStatus \in HealthCheckStatus : HealthCheckConstruct(initialStatus)
    \/ \E status \in HealthCheckStatus : HealthCheckSetStatus(status)
    \/ \E i \in 1..MaxInstances, path \in HealthPaths : HealthCheckMiddleware(i, path)

SpecHealth == InitHealth /\ [][NextHealth]_vars

-----------------------------------------------------------------------------
(* Registration: exactly once, report, partition *)

\* no controller is declared as a child of more than one parent
NoSharedChild ==
    \A c \in Units : Cardinality({p \in Units : Includes(childMeta[p].cs, c)}) <= 1

RegistrationDone == pc = "done"

\* C1: for every child graph without a shared child, once Router.setup has
\* completed the Express app has received exactly one registration call for
\* each (verb, path) descriptor of every unit.
ExactlyOnceRegistration ==
    (RegistrationDone /\ NoSharedChild) =>
        \A u \in Units : \A v \in Range(Verbs) :
            \A i \in 1..Len(Descriptors(u)[v]) :
                Count(appStack, RouteLayer(v, Descriptors(u)[v][i], u)) = 1

\* C2: for every child graph without a shared child, once Router.setup has
\* completed addedRoutes holds each route of every discovered unit exactly once.
ReportExactlyOnce ==
    (RegistrationDone /\ NoSharedChild) =>
        \A u \in Range(loadedControllers) : \A v \in Range(Verbs) :
            \A i \in 1..Len(Descriptors(u)[v]) :
                Count(addedRoutes, ReportEntry(v, Descriptors(u)[v][i], u)) = 1

\* the partition as the specification states it, with children flattened
WithChildrenSet == {u \in Range(loadedControllers) : childMeta[u] # Undefined}

ChildrenSet == UNION {Range(childMeta[u].cs) : u \in WithChildrenSet}

StandaloneSet == (Range(loadedControllers) \ WithChildrenSet) \ ChildrenSet

TopLevelSet == WithChildrenSet \cup StandaloneSet

\* the units whose setup the Router itself invoked
DirectSetups == {setupLog[i].unit : i \in {j \in 1..Len(setupLog) : setupLog[j].by = "Router"}}

\* C3: once every top-level unit is processed, the Router has invoked setup
\* directly on a discovered unit if and only if the unit is in
\* topLevel = withChildren \cup standalone, children being the flattened set.
PartitionInvariant ==
    pc \in {"catchall", "done"} =>
        \A u \in Range(loadedControllers) : (u \in DirectSetups) <=> (u \in TopLevelSet)

-----------------------------------------------------------------------------
(* Serving: catch-all and error chain *)

\* C4: a request whose path was added to the outside-framework routes at any
\* time before the catch-all runs for it is passed on by next() with no error,
\* and the catch-all leaves its status alone.
CatchAllExemption ==
    (req.catchAll # "notrun" /\ req.addedBefore) =>
        /\ req.catchAll = "next"
        /\ req.err = "none"
        /\ req.statusCode = req.statusAtCatchAll

\* a path added while its request was on the way to the catch-all is passed on
CatchAllExemptionWitness ==
    /\ req.catchAll = "next"
    /\ req.addedBefore
    /\ ~req.addedAtArrival
    /\ req.stage = "done"

\* C5: a finished request of any verb that no route matched and whose path is
\* not an outside-framework route was given status 404 and the error
\* 'Page Not Found' by the catch-all.
UnmatchedGetsNotFound ==
    (req.stage = "done" /\ ~req.matched /\ ~req.exempt) => req.catchAll = "notfound"

\* C6: a unit's handle is invoked only when the response's status equals the
\* unit's code; a unit whose code differs forwards the same error; a 404
\* response never invokes a 500 unit and a 200 response invokes no unit.
ErrorChainGating ==
    \A i \in 1..Len(req.calls) :
        LET c == req.calls[i]
        IN  /\ c.decision = "handle" => c.statusCode = c.code
            /\ c.statusCode # c.code => c.decision = "next"
            /\ (c.decision = "next" /\ i < Len(req.calls)) => req.calls[i + 1].error = c.error
            /\ (c.statusCode = 404 /\ c.code = 500) => c.decision = "next"
            /\ c.statusCode = 200 => c.decision = "next"

\* the 500 unit installed first forwards a 404 error, the 404 unit handles it
ErrorChainGatingWitness ==
    /\ errCodes = <<500, 404>>
    /\ Len(req.calls) = 2
    /\ req.calls[1].statusCode = 404 /\ req.calls[1].decision = "next"
    /\ req.calls[2].statusCode = 404 /\ req.calls[2].decision = "handle"

\* C7: a wrapper invoked on a response whose headers are sent forwards the
\* error and does not invoke handle, even when the status equals its code.
HeadersSentBypass ==
    \A i \in 1..Len(req.calls) :
        req.calls[i].headersSent => req.calls[i].decision = "next"

\* a wrapper ran with headers sent and the status equal to its code
HeadersSentBypassWitness ==
    \E i \in 1..Len(req.calls) :
        /\ req.calls[i].headersSent
        /\ req.calls[i].statusCode = req.calls[i].code
        /\ req.calls[i].decision = "next"

-----------------------------------------------------------------------------
(* @Page *)

Returned == pagePc = "returned" /\ pageOutput # NoOutput

\* C8: when the method returns false the wrapper makes no render call; when
\* it returns a plain data object the wrapper makes exactly one render call and
\* every key of the object is in the render parameters with the returned
\* value, overriding the decorator's value for that key.
PageShortCircuitAndOverride ==
    /\ (Returned /\ IsFalse(pageOutput)) => renders = <<>>
    /\ (pagePc # "awaiting" /\ pageOutput.kind = "object") =>
            /\ pagePc = "returned"
            /\ Len(renders) = 1
            /\ \A e \in pageOutput.entries :
                    e[1] \in DOMAIN renders[1].params /\ renders[1].params[e[1]] = e[2]

\* the method returned an object that names title and the first extra
\* parameter, both of which the decorator set, and a key of its own
PageShortCircuitAndOverrideWitness ==
    /\ Returned
    /\ pageOutput.kind = "object"
    /\ {e[1] : e \in pageOutput.entries} = {"title", "0", "foo"}
    /\ Len(pageCfg.otherParams) = 1
    /\ Len(renders) = 1
    /\ renders[1].params["title"] # pageCfg.title

\* C9: for every return value other than false the wrapper makes exactly one
\* render call against 'base', with parameters seeded from the decorator's
\* title, page, extraStyles, extraScripts and extra parameters, and does not throw.
PageRendersOtherwise ==
    (pagePc # "awaiting" /\ pageOutput # NoOutput /\ ~IsFalse(pageOutput)) =>
        /\ pagePc = "returned"
        /\ Len(renders) = 1
        /\ renders[1].view = "base"
        /\ DOMAIN SeedParams(pageCfg) \subseteq DOMAIN renders[1].params

\* C10: called with no argument, or more than one, that has a render function,
\* the wrapper logs a warning, renders on no argument and returns without throwing.
PagePreconditionFailsSoft ==
    (pagePc # "idle" /\ Cardinality(ResponseArgs(pageArgs)) # 1) =>
        /\ pagePc = "returned"
        /\ warnings = 1
        /\ renders = <<>>

\* the wrapper was called with two responses and returned
PagePreconditionFailsSoftWitness ==
    /\ pagePc = "returned"
    /\ Cardinality(ResponseArgs(pageArgs)) = 2
    /\ warnings = 1

-----------------------------------------------------------------------------
(* Start-up failures *)

RECURSIVE LoadableIn(_)
\* the .js files below the entries that require loads
LoadableIn(entries) ==
    IF entries = <<>> THEN {}
    ELSE LET e == Head(entries)
             here == IF e.kind = "dir" THEN LoadableIn(e.entries)
                     ELSE IF e.js /\ e.loads THEN {e} ELSE {}
         IN  here \cup LoadableIn(Tail(entries))

RECURSIVE BrokenIn(_)
\* the .js files below the entries that throw when loaded
BrokenIn(entries) ==
    IF entries = <<>> THEN {}
    ELSE LET e == Head(entries)
             here == IF e.kind = "dir" THEN BrokenIn(e.entries)
                     ELSE IF e.js /\ ~e.loads THEN {e} ELSE {}
         IN  here \cup BrokenIn(Tail(entries))

Scanned == pc # "discover"

\* setupControllers ended at the scan of the folder
DiscoveryFailed == pc = "failed" /\ ~rejected

\* C11: once the controllers folder is scanned, discovery has not failed and
\* the controllers and error controllers found are those of every file that
\* loads, whether or not another file threw when loaded.
LoadFailureIsolation ==
    Scanned =>
        /\ ~DiscoveryFailed
        /\ Range(loadedControllers)
               = UNION {Range(controllersIn(f.exports)) : f \in LoadableIn(root)}
        /\ Range(errCodes)
               = UNION {Range(errorControllersIn(f.exports)) : f \in LoadableIn(root)}

\* the units the Router has finished with
Processed ==
    IF pc = "toplevel" THEN {topLevelControllers[i] : i \in 1..(idx - 1)}
    ELSE IF pc \in {"catchall", "done", "failed"} /\ ~DiscoveryFailed
    THEN Range(topLevelControllers)
    ELSE {}

\* C12: a unit without 'originalClass' metadata is skipped: the report has no
\* entry for it and the Router does not invoke its setup; every other unit the
\* Router has processed is reported and set up.
IntrospectionFailureIsolation ==
    /\ \A u \in undecorated :
            /\ \A i \in 1..Len(addedRoutes) : addedRoutes[i].unit # u
            /\ u \notin DirectSetups
    /\ \A u \in Processed \ undecorated : u \in DirectSetups

\* C13: when a setup has thrown during the pass over the top-level units,
\* every top-level unit is still set up and Router.setup goes on to install
\* the catch-all and the error controllers.
BrokenControllerIsolation ==
    (rejected /\ ~(pc = "toplevel" /\ idx <= Len(topLevelControllers))) =>
        /\ Range(topLevelControllers) \subseteq DirectSetups
        /\ pc \in {"catchall", "done"}

-----------------------------------------------------------------------------
(* Order of registration *)

\* the positions of the layers of one kind on the app
LayersOf(kind) == {i \in 1..Len(appStack) : appStack[i].kind = kind}

PosIn(seq, x) == CHOOSE k \in 1..Len(seq) : seq[k] = x

\* the positions of the log where a setup of some unit begins
SetupsInLog == {i \in 1..Len(setupLog) : setupLog[i].ev = "setup"}

\* the log from the setup that begins at i up to the next setup of the same unit
Window(i) ==
    LET later == {j \in SetupsInLog : j > i /\ setupLog[j].unit = setupLog[i].unit}
        stop == IF later = {} THEN Len(setupLog) + 1
                ELSE CHOOSE j \in later : \A k \in later : j <= k
    IN  (i + 1)..(stop - 1)

\* the registrations of its own routes by the setup that begins at i
OwnRoutesOf(i) ==
    {j \in Window(i) : setupLog[j].ev = "route" /\ setupLog[j].unit = setupLog[i].unit}

\* the setups of children invoked by the setup that begins at i
ChildSetupsOf(i) ==
    {j \in Window(i) : setupLog[j].ev = "setup" /\ setupLog[j].by = setupLog[i].unit}

\* C15: every setup in the log invokes the setup of each declared child, in
\* declaration order, before it registers a route of its own; it registers
\* each of its descriptors, one after the other, GET before POST before PUT
\* before DELETE and within a verb in the order of the prototype; and each
\* registration passes the declared middleware, in order, then the method.
OrderInsideSetup ==
    \A i \in SetupsInLog :
        LET u == setupLog[i].unit
            cs == childMeta[u].cs
            own == OwnRoutesOf(i)
            kids == ChildSetupsOf(i)
        IN  /\ \A c \in kids : \A r \in own : c < r
            /\ Cardinality(kids) = Len(cs)
            /\ {setupLog[c].unit : c \in kids} = Range(cs)
            /\ \A c, d \in kids :
                    c < d => PosIn(cs, setupLog[c].unit) < PosIn(cs, setupLog[d].unit)
            /\ \A r, q \in own : \A j \in r..q : j \in own
            /\ Cardinality(own) = Len(Descriptors(u).GET) + Len(Descriptors(u).POST)
                                    + Len(Descriptors(u).PUT) + Len(Descriptors(u).DELETE)
            /\ \A r, q \in own :
                    r < q =>
                        LET a == setupLog[r]
                            b == setupLog[q]
                        IN  \/ PosIn(Verbs, a.verb) < PosIn(Verbs, b.verb)
                            \/ /\ a.verb = b.verb
                               /\ PosIn(Descriptors(u)[a.verb], a.path)
                                      < PosIn(Descriptors(u)[b.verb], b.path)
            /\ \A r \in own :
                    LET e == setupLog[r]
                        mw == Middleware(u, e.verb, e.path)
                    IN  /\ Len(e.handlers) = Len(mw) + 1
                        /\ SubSeq(e.handlers, 1, Len(mw)) = mw
                        /\ e.handlers[Len(e.handlers)] = "fn"
                        /\ e.verb = "GET" => e.handlers = <<"fn">>

\* B, declaring the children C and A in this order, has been set up: its
\* GET route, then its POST route with two middleware
OrderInsideSetupWitness ==
    /\ pc = "done"
    /\ childMeta["B"] = Array(<<"C", "A">>)
    /\ \E i \in SetupsInLog :
            /\ setupLog[i].unit = "B"
            /\ Cardinality(ChildSetupsOf(i)) = 2
            /\ \E r \in OwnRoutesOf(i) : Len(setupLog[r].handlers) = 3

\* the positions of the log where the Router itself invoked a setup
DirectInLog == {i \in SetupsInLog : setupLog[i].by = "Router"}

\* the setup invoked by the Router during which the log entry at r was made
DirectBefore(r) ==
    LET before == {d \in DirectInLog : d < r}
    IN  CHOOSE d \in before : \A e \in before : e <= d

\* C16: the Router has invoked one setup for each top-level unit it has
\* processed; a unit that declares children is never set up after a unit that
\* declares none; two units of the same group are set up in discovery order;
\* and every route registered between one of these setups and the next
\* belongs to the unit set up or to one of its descendants.
OrderAcrossUnits ==
    /\ pc = "toplevel" => Cardinality(DirectInLog) = idx - 1
    /\ \A i, j \in DirectInLog :
            i < j =>
                LET a == setupLog[i].unit
                    b == setupLog[j].unit
                IN  /\ ~(childMeta[a] = Undefined /\ childMeta[b] # Undefined)
                    /\ ((childMeta[a] = Undefined) <=> (childMeta[b] = Undefined)) =>
                            PosIn(loadedControllers, a) < PosIn(loadedControllers, b)
    /\ \A r \in 1..Len(setupLog) :
            setupLog[r].ev = "route" =>
                /\ \E d \in DirectInLog : d < r
                /\ setupLog[r].unit \in
                       Descendants(childMeta, {setupLog[DirectBefore(r)].unit},
                                   Cardinality(Units))

\* the parent C, discovered last, was set up before the two units without
\* children, which were set up in discovery order
OrderAcrossUnitsWitness ==
    /\ pc = "done"
    /\ loadedControllers = <<"B", "A", "C">>
    /\ childMeta["C"] # Undefined
    /\ \E i, j, k \in DirectInLog :
            /\ i < j /\ j < k
            /\ setupLog[i].unit = "C" /\ setupLog[j].unit = "B" /\ setupLog[k].unit = "A"

\* the top-level units as a set: a unit that declares children, or that no
\* discovered unit declares as its one child
TopUnits ==
    {u \in Range(loadedControllers) :
        \/ childMeta[u] # Undefined
        \/ ~(\E p \in Range(loadedControllers) : childMeta[p] = Single(u))}

RECURSIVE Paths(_, _), SumPaths(_, _)
\* the number of chains of child declarations that lead from t to u
Paths(t, u) == IF t = u THEN 1 ELSE SumPaths(childMeta[t].cs, u)

SumPaths(cs, u) == IF cs = <<>> THEN 0 ELSE Paths(Head(cs), u) + SumPaths(Tail(cs), u)

RECURSIVE PathsFrom(_, _)
\* the number of such chains from the units of a set
PathsFrom(S, u) ==
    IF S = {} THEN 0
    ELSE LET t == CHOOSE x \in S : TRUE
         IN  Paths(t, u) + PathsFrom(S \ {t}, u)

\* the discovered units that declare u among their children
ParentsOf(u) == {p \in Range(loadedControllers) : Includes(childMeta[p].cs, u)}

\* C17: once Router.setup has completed, the units set up by the Router, the
\* number of registrations of every route and the number of report entries of
\* every route are given by the set of discovered units and their child
\* declarations alone, whatever the order of discovery.
IndependentOfDiscoveryOrder ==
    pc = "done" =>
        /\ DirectSetups = TopUnits
        /\ \A u \in Units : \A v \in Range(Verbs) :
                \A i \in 1..Len(Descriptors(u)[v]) :
                    /\ Count(appStack, RouteLayer(v, Descriptors(u)[v][i], u))
                           = PathsFrom(TopUnits, u)
                    /\ Count(addedRoutes, ReportEntry(v, Descriptors(u)[v][i], u))
                           = Cardinality(ParentsOf(u)) + (IF u \in TopUnits THEN 1 ELSE 0)

\* setup has completed for a child discovered before its parent, with a
\* third unit discovered between them
IndependentOfDiscoveryOrderWitness ==
    /\ pc = "done"
    /\ loadedControllers = <<"A", "C", "B">>
    /\ childMeta["B"] = Single("A")
    /\ "A" \notin DirectSetups

\* the positions of the log where a setup of u begins
SetupsOf(u) == {i \in SetupsInLog : setupLog[i].unit = u}

\* C18: once Router.setup has completed, for every parent p and every child c
\* it declares (no child being shared), the report lists every route of c
\* before any route of p and each of them exactly once, the Router has
\* invoked setup on p and not on c, and the setup of c has run exactly once,
\* invoked by p.
ChildrenReportedBeforeParent ==
    (pc = "done" /\ NoSharedChild) =>
        \A p \in Units : \A c \in Range(childMeta[p].cs) :
            /\ \A i, j \in 1..Len(addedRoutes) :
                    (addedRoutes[i].unit = c /\ addedRoutes[j].unit = p) => i < j
            /\ \A u \in {p, c} : \A v \in Range(Verbs) :
                    \A i \in 1..Len(Descriptors(u)[v]) :
                        Count(addedRoutes, ReportEntry(v, Descriptors(u)[v][i], u)) = 1
            /\ p \in DirectSetups
            /\ c \notin DirectSetups
            /\ Cardinality(SetupsOf(c)) = 1
            /\ \A i \in SetupsOf(c) : setupLog[i].by = p

-----------------------------------------------------------------------------
(* addOutsideFrameworkRoute and setup, called again *)

\* C19: the list holds every path ever added exactly once and nothing else;
\* no step removes a path from it; and a step that leaves it with the same
\* paths leaves it as it was.
AddRouteIdempotent ==
    /\ [](/\ \A route \in everAdded : Count(outsideFrameworkRoutes, route) = 1
          /\ Range(outsideFrameworkRoutes) = everAdded)
    /\ [][/\ Range(outsideFrameworkRoutes) \subseteq Range(outsideFrameworkRoutes')
          /\ Range(outsideFrameworkRoutes') = Range(outsideFrameworkRoutes) =>
                 outsideFrameworkRoutes' = outsideFrameworkRoutes]_vars

\* both paths are in the list and one of them was added a second time
AddRouteIdempotentWitness ==
    /\ Len(outsideFrameworkRoutes) = 2
    /\ readded # {}
    /\ pc = "done"

\* C20: when the setup of a unit has been invoked more than once on the app,
\* the app still holds each of its routes once.
SetupIdempotent ==
    \A u \in Units :
        Cardinality(SetupsOf(u)) > 1 =>
            \A v \in Range(Verbs) : \A i \in 1..Len(Descriptors(u)[v]) :
                Count(appStack, RouteLayer(v, Descriptors(u)[v][i], u)) = 1

-----------------------------------------------------------------------------
(* The Page wrapper and the decorated method *)

\* C28: called with no response-capable argument, or with more than one, the
\* wrapper never invokes the decorated method; the method has been invoked
\* only when exactly one argument is response-capable, and then once.
PageHandlerNeedsOneResponse ==
    /\ (pagePc # "idle" /\ Cardinality(ResponseArgs(pageArgs)) # 1) =>
            handlerRuns = 0 /\ pagePc # "awaiting"
    /\ handlerRuns > 0 =>
            Cardinality(ResponseArgs(pageArgs)) = 1 /\ handlerRuns = 1

\* the wrapper was called without a response and has returned, the method
\* not invoked
PageHandlerNeedsOneResponseWitness ==
    /\ pagePc = "returned"
    /\ Len(pageArgs) = 2
    /\ ResponseArgs(pageArgs) = {}
    /\ handlerRuns = 0

-----------------------------------------------------------------------------
(* Error controllers: instances *)

\* the instances setupControllers has constructed: one for every handler
\* it has installed
ConstructedAtRegistration ==
    Cardinality({i \in 1..Len(appStack) : appStack[i].kind = "error"})

\* the instances the wrappers have constructed while handling the request
ConstructedWhileHandling ==
    Cardinality({i \in 1..Len(req.calls) : req.calls[i].constructed})

\* C24: every discovered error controller class is constructed exactly once,
\* at registration; handling errors afterwards constructs no further instance.
ErrorControllerConstructedOnce ==
    pc = "done" =>
        /\ ConstructedAtRegistration = Len(errCodes)
        /\ ConstructedWhileHandling = 0

-----------------------------------------------------------------------------
(* Shared children, and the report against the Express app *)

\* the registration calls the app received for the i-th route of verb v of u
RegisteredTimes(u, v, i) == Count(appStack, RouteLayer(v, Descriptors(u)[v][i], u))

\* the entries of addedRoutes for that route
ReportedTimes(u, v, i) == Count(addedRoutes, ReportEntry(v, Descriptors(u)[v][i], u))

\* C25: when a unit is declared as the child of two different discovered
\* parents, once Router.setup has completed each of its routes is registered
\* on the app exactly twice and listed in the report once.
SharedChildTwiceReportedOnce ==
    pc = "done" =>
        \A c \in Units :
            Cardinality(ParentsOf(c)) = 2 =>
                \A v \in Range(Verbs) : \A i \in 1..Len(Descriptors(c)[v]) :
                    /\ RegisteredTimes(c, v, i) = 2
                    /\ ReportedTimes(c, v, i) = 1

\* C26: once Router.setup has completed, every route has as many report
\* entries as the app received registration calls for it, for every child
\* graph, nested parents and arrays of children included.
ReportMirrorsTransport ==
    pc = "done" =>
        \A u \in Units : \A v \in Range(Verbs) : \A i \in 1..Len(Descriptors(u)[v]) :
            ReportedTimes(u, v, i) = RegisteredTimes(u, v, i)

-----------------------------------------------------------------------------
(* Discovery *)

\* C22: while the controllers folder is being scanned nothing is registered
\* on the app, nothing is reported and no setup is invoked; whenever the app
\* holds a layer or a setup has been invoked, every entry of the folder has
\* been classified.
DiscoveryRegistersNothing ==
    /\ pc = "discover" => appStack = <<>> /\ setupLog = <<>> /\ addedRoutes = <<>>
    /\ (appStack # <<>> \/ setupLog # <<>> \/ addedRoutes # <<>>) =>
            \A i \in 1..Len(root) : i \in classified

\* the scan is under way: some entries of the folder are classified, a
\* subfolder among them, others are not
DiscoveryRegistersNothingWitness ==
    /\ pc = "discover"
    /\ Cardinality(classified) = 2
    /\ Len(root) = 4
    /\ \E i \in classified : root[i].kind = "dir" /\ Len(root[i].entries) = 1
    /\ appStack = <<>>

RECURSIVE ExportsIn(_)
\* the exports of the .js files below the entries, one list
ExportsIn(entries) ==
    IF entries = <<>> THEN <<>>
    ELSE LET e == Head(entries)
             here == IF e.kind = "dir" THEN ExportsIn(e.entries)
                     ELSE IF e.js THEN e.exports ELSE <<>>
         IN  here \o ExportsIn(Tail(entries))

\* C23: for every tree whose modules all load, once the scan is over the
\* controllers found are the exported classes that extend BaseController and
\* the error controllers found those that extend ErrorController, each as
\* often as it is exported and in the order of the tree; other classes,
\* exports that are no classes and files that are not .js add nothing.
DiscoveryComplete ==
    (Scanned /\ ~DiscoveryFailed) =>
        /\ loadedControllers
               = [i \in 1..Len(SelectSeq(ExportsIn(root),
                                         LAMBDA e : e.class /\ e.base = "BaseController")) |->
                    SelectSeq(ExportsIn(root),
                              LAMBDA e : e.class /\ e.base = "BaseController")[i].unit]
        /\ errCodes
               = [i \in 1..Len(SelectSeq(ExportsIn(root),
                                         LAMBDA e : e.class /\ e.base = "ErrorController")) |->
                    SelectSeq(ExportsIn(root),
                              LAMBDA e : e.class /\ e.base = "ErrorController")[i].code]

\* the scan is over for a deep tree with a module of several controllers and
\* error controllers, a module without exports and a class that is no
\* controller
DiscoveryCompleteWitness ==
    /\ Scanned /\ ~DiscoveryFailed
    /\ Len(loadedControllers) = 3
    /\ Len(errCodes) = 2
    /\ \E i \in 1..Len(root) :
            /\ root[i].kind = "dir"
            /\ Len(root[i].entries) = 2
            /\ root[i].entries[1].exports = <<>>
            /\ root[i].entries[2].kind = "dir"
    /\ \E i \in 1..Len(root) :
            /\ Len(controllersIn(root[i].exports)) = 2
            /\ Len(errorControllersIn(root[i].exports)) = 2

-----------------------------------------------------------------------------
(* Termination *)

\* the setups of c invoked by the setup of p
EdgeVisits(p, c) ==
    Cardinality({i \in 1..Len(setupLog) :
                    /\ setupLog[i].ev = "setup"
                    /\ setupLog[i].unit = c
                    /\ setupLog[i].by = p})

\* Router.setup is over: completed, or rejected
SetupOver == pc \in {"done", "failed"}

\* C27: for every tree and every acyclic child relation Router.setup
\* eventually completes or fails, and the setup of a parent invokes the setup
\* of a child at most once for every chain of declarations that leads from a
\* top-level unit to the parent.
RegistrationTerminates ==
    /\ <>SetupOver
    /\ [](\A p \in Units : \A c \in Range(childMeta[p].cs) :
              EdgeVisits(p, c) <= PathsFrom(TopUnits, p))

\* Router.setup has completed for the chain: B's setup ran twice, once by the
\* Router and once by C, and invoked A's setup each time
RegistrationTerminatesWitness ==
    /\ pc = "done"
    /\ childMeta["C"] = Single("B")
    /\ childMeta["B"] = Single("A")
    /\ EdgeVisits("B", "A") = 2
    /\ EdgeVisits("C", "B") = 1

-----------------------------------------------------------------------------
(* Health check *)

\* C30: whatever constructions and setStatus calls came before, a middleware
\* instance handed a request for the health-check endpoint answers by the
\* status written last, 200 'ok' or 500 'error', and does not call next; a
\* request for another path is passed on unanswered.
HealthStatusProcessWide ==
    hcResp.instance # 0 =>
        IF hcResp.path = HEALTH_CHECK_ENDPOINT
        THEN /\ ~hcResp.next
             /\ hcResp.written = "ok" => hcResp.code = 200 /\ hcResp.body = "ok"
             /\ hcResp.written = "error" => hcResp.code = 500 /\ hcResp.body = "error"
             /\ hcResp.written \in HealthCheckStatus
        ELSE hcResp.next /\ hcResp.code = 0

\* the first instance, constructed with OK, answers 500 after a later
\* instance was constructed with ERROR
HealthStatusProcessWideWitness ==
    /\ Len(hcInstances) >= 2
    /\ hcInstances[1] = "ok"
    /\ hcInstances[2] = "error"
    /\ hcResp.instance = 1
    /\ hcResp.path = HEALTH_CHECK_ENDPOINT
    /\ hcResp.code = 500

-----------------------------------------------------------------------------
(* OAuthApp *)

\* the paths the OAuth subsystem exempts
OAuthExemptPaths == {JWKS} \cup Range(oauthCfg.setupRoutes)

\* C21: every path the OAuth subsystem exempts is in outsideFrameworkRoutes
\* when Router.setup has completed, and no request for such a path is
\* answered 404 by the catch-all.
OAuthExemptBeforeRegistrationCompletes ==
    /\ pc = "done" => \A p \in OAuthExemptPaths : Includes(outsideFrameworkRoutes, p)
    /\ req.catchAll = "notfound" => req.path \notin OAuthExemptPaths

\* the position of the first event e of the log, 0 when there is none
FirstInLog(e) ==
    IF \E i \in 1..Len(oauthLog) : oauthLog[i] = e
    THEN CHOOSE i \in 1..Len(oauthLog) :
             oauthLog[i] = e /\ \A j \in 1..(i - 1) : oauthLog[j] # e
    ELSE 0

\* C29: onStart invokes the callback only after Client.setup has resolved and
\* the client's routes are exempted, never after a failed setup; the key set
\* path is exempted before Client.setup is called; what setupOAuthClient or
\* the callback throws is caught and logged, and onStart returns.
OAuthStartUpOrder ==
    /\ FirstInLog("callback invoked") # 0 =>
            /\ FirstInLog("setup routes exempt") # 0
            /\ FirstInLog("Client.setup resolved") < FirstInLog("setup routes exempt")
            /\ FirstInLog("setup routes exempt") < FirstInLog("callback invoked")
            /\ FirstInLog("setup threw") = 0
            /\ oauthCfg.hasCallback
    /\ FirstInLog("Client.setup called") # 0 =>
            /\ FirstInLog("jwks exempt") # 0
            /\ FirstInLog("jwks exempt") < FirstInLog("Client.setup called")
            /\ Includes(outsideFrameworkRoutes, JWKS)
    /\ \A i \in 1..Len(oauthLog) :
            oauthLog[i] \in {"setup threw", "callback threw"} =>
                /\ i < Len(oauthLog)
                /\ oauthLog[i + 1] = "error logged"
                /\ oauthPc = "returned"
    /\ oauthPc \in {"idle", "clientSetup", "callback", "returned"}

\* the set-up succeeded, the callback was invoked and threw, onStart returned
OAuthStartUpOrderWitness ==
    /\ oauthPc = "returned"
    /\ FirstInLog("callback threw") # 0
    /\ oauthCfg.setupRoutes # <<>>

=============================================================================
